---- MODULE Spec2Model ----
\* Model of the wampproto command line tool (cmd/wampproto/main.go): one
\* invocation of the process, from os.Args through parseCmd and the command
\* switch of Run to the print-or-fatal step of main.
\*
\* Representation.  A string is a sequence of one-character strings, a byte
\* sequence is a sequence of integers 0..255.  The Go error value is a
\* sequence of strings; nil is the empty sequence.  External delegates
\* (kingpin, wampproto-go auth/messages/serializers, crypto/ed25519) are
\* modelled at their call sites; every call Run makes to one of them is
\* appended to the log `calls`.
EXTENDS Integers, Sequences, FiniteSets, TLC

VARIABLES pc, c, env, calls, out, err, stdout, stderr, exitStatus

vars == <<pc, c, env, calls, out, err, stdout, stderr, exitStatus>>

\* ---------------------------------------------------------------- bounds
MaxArgs == 1
MaxRequestID == 2
NumSeeds == 2

\* ------------------------------------------------------ program constants
SeedSize == 32
PrivateKeySize == 64
PublicKeySize == 32

nil == <<>>

\* ------------------------------------------------------------ hex, base64
HexDigits == <<"0","1","2","3","4","5","6","7","8","9","a","b","c","d","e","f">>
HexUpper  == <<"0","1","2","3","4","5","6","7","8","9","A","B","C","D","E","F">>

IsHexChar(ch) == \E i \in 1..16 : HexDigits[i] = ch \/ HexUpper[i] = ch
HexVal(ch) == (CHOOSE i \in 1..16 : HexDigits[i] = ch \/ HexUpper[i] = ch) - 1

IsHex(s) == Len(s) % 2 = 0 /\ \A i \in 1..Len(s) : IsHexChar(s[i])

HexDecode(s) == [i \in 1..(Len(s) \div 2) |-> 16 * HexVal(s[2*i - 1]) + HexVal(s[2*i])]

HexEncode(b) ==
    [i \in 1..(2 * Len(b)) |->
        IF i % 2 = 1 THEN HexDigits[(b[(i + 1) \div 2] \div 16) + 1]
                     ELSE HexDigits[(b[i \div 2] % 16) + 1]]

B64Alphabet ==
    <<"A","B","C","D","E","F","G","H","I","J","K","L","M","N","O","P",
      "Q","R","S","T","U","V","W","X","Y","Z","a","b","c","d","e","f",
      "g","h","i","j","k","l","m","n","o","p","q","r","s","t","u","v",
      "w","x","y","z","0","1","2","3","4","5","6","7","8","9","+","/">>

IsB64Char(ch) == \E i \in 1..64 : B64Alphabet[i] = ch
B64Val(ch) == (CHOOSE i \in 1..64 : B64Alphabet[i] = ch) - 1

\* byte i (1-based) of b, zero past the end
ByteOrZero(b, i) == IF i <= Len(b) THEN b[i] ELSE 0

\* the four characters of the group that starts at byte 3g+1
B64Group(b, g) ==
    LET n == 65536 * ByteOrZero(b, 3*g + 1) + 256 * ByteOrZero(b, 3*g + 2)
             + ByteOrZero(b, 3*g + 3)
        have == Len(b) - 3*g
    IN  << B64Alphabet[(n \div 262144) + 1],
           B64Alphabet[((n \div 4096) % 64) + 1],
           IF have >= 2 THEN B64Alphabet[((n \div 64) % 64) + 1] ELSE "=",
           IF have >= 3 THEN B64Alphabet[(n % 64) + 1] ELSE "=" >>

Base64Encode(b) ==
    LET groups == (Len(b) + 2) \div 3
    IN  [i \in 1..(4 * groups) |-> B64Group(b, (i - 1) \div 4)[((i - 1) % 4) + 1]]

\* number of trailing "=" of s (0, 1 or 2 when s is well formed)
B64Pad(s) ==
    IF Len(s) >= 2 /\ s[Len(s)] = "=" /\ s[Len(s) - 1] = "=" THEN 2
    ELSE IF Len(s) >= 1 /\ s[Len(s)] = "=" THEN 1 ELSE 0

IsBase64(s) ==
    /\ Len(s) % 4 = 0
    /\ \A i \in 1..(Len(s) - B64Pad(s)) : IsB64Char(s[i])

B64CharVal(s, i) == IF i <= Len(s) - B64Pad(s) THEN B64Val(s[i]) ELSE 0

Base64Decode(s) ==
    LET n == (3 * (Len(s) \div 4)) - B64Pad(s)
        quad(g) == 262144 * B64CharVal(s, 4*g + 1) + 4096 * B64CharVal(s, 4*g + 2)
                   + 64 * B64CharVal(s, 4*g + 3) + B64CharVal(s, 4*g + 4)
    IN  [i \in 1..n |->
            LET g == (i - 1) \div 3
                k == (i - 1) % 3
            IN  IF k = 0 THEN quad(g) \div 65536
                ELSE IF k = 1 THEN (quad(g) \div 256) % 256
                ELSE quad(g) % 256]

\* ------------------------------------------- package wampprotocli helpers
HexFormat == "hex"
Base64Format == "base64"
OutputFormats == {HexFormat, Base64Format}

JsonSerializer == "json"
CborSerializer == "cbor"
MsgpackSerializer == "msgpack"
ProtobufSerializer == "protobuf"
SerializerNames == {JsonSerializer, CborSerializer, MsgpackSerializer, ProtobufSerializer}

Ok(v) == [ok |-> TRUE, v |-> v, err |-> nil]
Fail(e) == [ok |-> FALSE, v |-> <<>>, err |-> e]

\* DecodeHexOrBase64: hex first, then base64, else a decode error.
DecodeHexOrBase64(str) ==
    IF IsHex(str) THEN Ok(HexDecode(str))
    ELSE IF IsBase64(str) THEN Ok(Base64Decode(str))
    ELSE Fail(<<"must be in either hex or base64 encoding">>)

\* FormatOutputBytes: render bytes in the selected output format.
FormatOutputBytes(outputFormat, outputBytes) ==
    IF outputFormat = HexFormat THEN Ok(HexEncode(outputBytes))
    ELSE IF outputFormat = Base64Format THEN Ok(Base64Encode(outputBytes))
    ELSE Fail(<<"invalid output format">>)

\* FormatOutput: the same for a value the delegate hands over as a hex string.
FormatOutput(outputFormat, outputString) ==
    IF outputFormat = HexFormat THEN Ok(outputString)
    ELSE IF outputFormat = Base64Format THEN
        IF IsHex(outputString) THEN Ok(Base64Encode(HexDecode(outputString)))
        ELSE Fail(<<"encoding/hex: invalid string">>)
    ELSE Fail(<<"invalid output format">>)

IsDigit(ch) == ch \in {"0","1","2","3","4","5","6","7","8","9"}
DigitVal(ch) == HexVal(ch)

Unsigned(s) == IF Len(s) > 0 /\ s[1] \in {"+", "-"} THEN Tail(s) ELSE s

IsIntToken(s) == Len(Unsigned(s)) > 0 /\ \A i \in 1..Len(Unsigned(s)) : IsDigit(Unsigned(s)[i])

RECURSIVE DigitsVal(_)
DigitsVal(d) == IF d = <<>> THEN 0
                ELSE 10 * DigitsVal(SubSeq(d, 1, Len(d) - 1)) + DigitVal(d[Len(d)])

IntVal(s) == IF Len(s) > 0 /\ s[1] = "-" THEN 0 - DigitsVal(Unsigned(s)) ELSE DigitsVal(Unsigned(s))

IsFloatToken(s) ==
    LET u == Unsigned(s)
    IN  /\ Cardinality({i \in 1..Len(u) : u[i] = "."}) = 1
        /\ \E i \in 1..Len(u) : IsDigit(u[i])
        /\ \A i \in 1..Len(u) : IsDigit(u[i]) \/ u[i] = "."

TrueToken == <<"t","r","u","e">>
FalseToken == <<"f","a","l","s","e">>
NullToken == <<"n","u","l","l">>

TypedValue(t, i, s) == [t |-> t, i |-> i, s |-> s]

\* convert: integer, float, boolean, null, else the string itself.
Convert(token) ==
    IF IsIntToken(token) THEN TypedValue("int", IntVal(token), <<>>)
    ELSE IF IsFloatToken(token) THEN TypedValue("float", 0, token)
    ELSE IF token = TrueToken THEN TypedValue("bool", 1, <<>>)
    ELSE IF token = FalseToken THEN TypedValue("bool", 0, <<>>)
    ELSE IF token = NullToken THEN TypedValue("null", 0, <<>>)
    ELSE TypedValue("string", 0, token)

\* An argument list or map as the constructor receives it: present (possibly
\* empty) or absent (Go nil).
Present(v) == [present |-> TRUE, v |-> v]
Absent == [present |-> FALSE, v |-> <<>>]

StringsToTypedList(strings) == Present([i \in 1..Len(strings) |-> Convert(strings[i])])

TypedMap(stringMap) == [k \in DOMAIN stringMap |-> Convert(stringMap[k])]

StringMapToTypedMap(stringMap) == Present(TypedMap(stringMap))

IsEmpty(x) == DOMAIN x.v = {}

\* UpdateArgsKwArgsIfEmpty: both absent when both are empty, else unchanged.
UpdateArgsKwArgsIfEmpty(arguments, kwargs) ==
    IF IsEmpty(arguments) /\ IsEmpty(kwargs) THEN <<Absent, Absent>>
    ELSE <<arguments, kwargs>>

SerializerByName(name) == name

\* ---------------------------------------------- crypto/ed25519 (abstract)
\* The curve arithmetic is replaced by fixed byte mixes that keep what the
\* program relies on: key and signature lengths, determinism, and the panic
\* of the standard library on a key of the wrong length.
SeedOf(j) == [i \in 1..SeedSize |-> (j * i + 7 * j) % 256]
Seeds == {SeedOf(j) : j \in 1..NumSeeds}

PublicFromSeed(seed) ==
    [i \in 1..PublicKeySize |-> (5 * seed[i] + 3 * seed[(i % SeedSize) + 1] + 17) % 256]

\* ed25519.NewKeyFromSeed panics unless len(seed) = SeedSize
NewKeyFromSeedPanics(seed) == Len(seed) # SeedSize
NewKeyFromSeed(seed) == seed \o PublicFromSeed(seed)

\* PrivateKey.Public(): the last 32 bytes of the 64-byte private key
Public(privateKey) == SubSeq(privateKey, SeedSize + 1, PrivateKeySize)

RECURSIVE SumBytes(_)
SumBytes(b) == IF b = <<>> THEN 0 ELSE (Head(b) + SumBytes(Tail(b))) % 256

\* ed25519.Sign panics unless len(privateKey) = PrivateKeySize
Ed25519SignPanics(privateKey) == Len(privateKey) # PrivateKeySize
Ed25519Sign(privateKey, message) ==
    [i \in 1..64 |-> (privateKey[i] + 3 * SumBytes(message) + Len(message) + i) % 256]

Ed25519Verify(publicKey, message, sig) ==
    \E seed \in Seeds :
        /\ PublicFromSeed(seed) = publicKey
        /\ Ed25519Sign(NewKeyFromSeed(seed), message) = sig

\* ------------------------------------------------ wampproto-go/auth delegates
Panic == [ok |-> FALSE, v |-> <<>>, err |-> nil, panicked |-> TRUE]
Ret(r) == [ok |-> r.ok, v |-> r.v, err |-> r.err, panicked |-> FALSE]

\* auth.GenerateCryptoSignChallenge: 32 random bytes as hex, or the error of
\* the random source.
GenerateCryptoSignChallenge(e) ==
    IF e.randFails THEN Fail(<<"rand: read failed">>)
    ELSE Ok(HexEncode(SeedOf(e.rnd)))

\* auth.SignCryptoSignChallenge: hex(signature) followed by the challenge;
\* an error when the challenge is not hex.
SignCryptoSignChallenge(challenge, privateKey) ==
    IF ~IsHex(challenge) THEN Ret(Fail(<<"failed to decode challenge">>))
    ELSE IF Ed25519SignPanics(privateKey) THEN Panic
    ELSE Ret(Ok(HexEncode(Ed25519Sign(privateKey, HexDecode(challenge))) \o challenge))

\* auth.VerifyCryptoSignSignature: an error when the signature is not hex or
\* not 96 bytes long, else whether the signature verifies.
VerifyCryptoSignSignature(signature, publicKey) ==
    IF ~IsHex(signature) THEN Fail(<<"encoding/hex: invalid string">>)
    ELSE IF Len(HexDecode(signature)) # 96
         THEN Fail(<<"signed message has invalid length">>)
    ELSE LET b == HexDecode(signature)
         IN  [ok |-> TRUE, err |-> nil,
              v |-> Ed25519Verify(publicKey, SubSeq(b, 65, 96), SubSeq(b, 1, 64))]

\* auth.GenerateCryptoSignKeyPair: hex public key and hex private key (seed).
GenerateCryptoSignKeyPair(e) ==
    IF e.randFails THEN Fail(<<"rand: read failed">>)
    ELSE Ok([publicKey |-> HexEncode(PublicFromSeed(SeedOf(e.rnd))),
             privateKey |-> HexEncode(SeedOf(e.rnd))])

\* ------------------------------------- wampproto-go messages and serializers
Message(kind, requestID, id2, options, uri, args, kwargs) ==
    [kind |-> kind, requestID |-> requestID, id2 |-> id2, options |-> options,
     uri |-> uri, args |-> args, kwargs |-> kwargs]

NewCall(requestID, options, uri, args, kwargs) ==
    Message("CALL", requestID, 0, options, uri, args, kwargs)
NewResult(requestID, details, args, kwargs) ==
    Message("RESULT", requestID, 0, details, "", args, kwargs)
NewRegister(requestID, options, uri) ==
    Message("REGISTER", requestID, 0, options, uri, Absent, Absent)
NewRegistered(requestID, registrationID) ==
    Message("REGISTERED", requestID, registrationID, <<>>, "", Absent, Absent)
NewInvocation(requestID, registrationID, details, args, kwargs) ==
    Message("INVOCATION", requestID, registrationID, details, "", args, kwargs)
NewYield(requestID, options, args, kwargs) ==
    Message("YIELD", requestID, 0, options, "", args, kwargs)
NewUnRegister(requestID, registrationID) ==
    Message("UNREGISTER", requestID, registrationID, <<>>, "", Absent, Absent)
NewUnRegistered(requestID) ==
    Message("UNREGISTERED", requestID, 0, <<>>, "", Absent, Absent)
NewSubscribe(requestID, options, topic) ==
    Message("SUBSCRIBE", requestID, 0, options, topic, Absent, Absent)
NewSubscribed(requestID, subscriptionID) ==
    Message("SUBSCRIBED", requestID, subscriptionID, <<>>, "", Absent, Absent)
NewPublish(requestID, options, topic, args, kwargs) ==
    Message("PUBLISH", requestID, 0, options, topic, args, kwargs)

MessageType(kind) ==
    CASE kind = "CALL" -> 48 [] kind = "RESULT" -> 50 [] kind = "REGISTER" -> 64
      [] kind = "REGISTERED" -> 65 [] kind = "UNREGISTER" -> 66
      [] kind = "UNREGISTERED" -> 67 [] kind = "INVOCATION" -> 68
      [] kind = "YIELD" -> 70 [] kind = "SUBSCRIBE" -> 32
      [] kind = "SUBSCRIBED" -> 33 [] kind = "PUBLISH" -> 16

SerializerTag(serializer) ==
    CASE serializer = JsonSerializer -> 91 [] serializer = CborSerializer -> 134
      [] serializer = MsgpackSerializer -> 150 [] serializer = ProtobufSerializer -> 8

\* Serializer.Serialize: opaque; the bytes are a digest of the message that
\* tells an absent field from an empty one, and the failure is the
\* serializer's own (env.serializeFails).
Serialize(serializer, message, e) ==
    IF e.serializeFails THEN Fail(<<"serializer: cannot encode message">>)
    ELSE Ok(<< SerializerTag(serializer), MessageType(message.kind),
               message.requestID % 256, message.id2 % 256,
               Cardinality(DOMAIN message.options) >>
            \o (IF message.args.present THEN <<1, Len(message.args.v)>> ELSE <<>>)
            \o (IF message.kwargs.present
                THEN <<2, Cardinality(DOMAIN message.kwargs.v)>> ELSE <<>>))

\* ------------------------------------------------------------ the cmd struct
GenerateChallengeCmd == "auth cryptosign generate-challenge"
SignChallengeCmd     == "auth cryptosign sign-challenge"
VerifySignatureCmd   == "auth cryptosign verify-signature"
KeygenCmd            == "auth cryptosign keygen"
GetPubKeyCmd         == "auth cryptosign get-pubkey"
CallCmd         == "message call"
ResultCmd       == "message result"
RegisterCmd     == "message register"
RegisteredCmd   == "message registered"
InvocationCmd   == "message invocation"
YieldCmd        == "message yield"
UnRegisterCmd   == "message unregister"
UnRegisteredCmd == "message unregistered"
SubscribeCmd    == "message subscribe"
SubscribedCmd   == "message subscribed"
PublishCmd      == "message publish"

EmptyMap == <<>>

\* The struct parseCmd builds, every field at the value kingpin leaves in it
\* when its command is not the one on the command line.
DefaultCmd ==
    [parsedCommand |-> "", output |-> HexFormat, serializer |-> JsonSerializer,
     challenge |-> <<>>, privateKey |-> <<>>, signature |-> <<>>, publicKey |-> <<>>,
     privateKeyFlag |-> <<>>,
     callRequestID |-> 0, callURI |-> "", callArgs |-> <<>>, callKwargs |-> EmptyMap,
     callOption |-> EmptyMap,
     resultRequestID |-> 0, resultDetails |-> EmptyMap, resultArgs |-> <<>>,
     resultKwargs |-> EmptyMap,
     regRequestID |-> 0, regProcedure |-> "", regOptions |-> EmptyMap,
     registeredRequestID |-> 0, registrationID |-> 0,
     invRequestID |-> 0, invRegistrationID |-> 0, invDetails |-> EmptyMap,
     invArgs |-> <<>>, invKwArgs |-> EmptyMap,
     yieldRequestID |-> 0, yieldOptions |-> EmptyMap, yieldArgs |-> <<>>,
     yieldKwArgs |-> EmptyMap,
     unRegRequestID |-> 0, unRegRegistrationID |-> 0,
     UnRegisteredRequestID |-> 0,
     subscribeRequestID |-> 0, subscribeTopic |-> "", subscribeOptions |-> EmptyMap,
     subscribedRequestID |-> 0, subscriptionID |-> 0,
     publishRequestID |-> 0, publishTopic |-> "", publishOptions |-> EmptyMap,
     publishArgs |-> <<>>, publishKwArgs |-> EmptyMap]

\* What the delegates outside the program will do in this run.
DefaultEnv == [randFails |-> FALSE, rnd |-> 1, serializeFails |-> FALSE]

\* ------------------------------------------------------ command line inputs
Bytes16 == [i \in 1..16 |-> (11 * i) % 256]

KeyTokens ==
    UNION {{HexEncode(s), Base64Encode(s), HexEncode(NewKeyFromSeed(s)),
            HexEncode(PublicFromSeed(s))} : s \in Seeds}
    \cup {HexEncode(Bytes16), <<"z", "!">>}

ChallengeTokens ==
    {HexEncode(SeedOf(1)), <<"a","b","c","1","2","3">>, <<"x","y","z">>}

SignedBy(seed, challenge) ==
    SignCryptoSignChallenge(challenge, NewKeyFromSeed(seed)).v

\* a well-formed signature that does not verify: the first digit changed
Forged(signature) == [signature EXCEPT ![1] = IF @ = "0" THEN "1" ELSE "0"]

SignatureTokens ==
    {SignedBy(s, HexEncode(SeedOf(1))) : s \in Seeds}
    \cup {Forged(SignedBy(SeedOf(1), HexEncode(SeedOf(1)))),
          <<"a","b","c","1","2","3">>, <<"n","o","t","-","h","e","x">>}

ArgTokens == {<<"4","2">>, <<"a","b","c">>, <<"t","r","u","e">>}

RECURSIVE SeqsUpTo(_, _)
SeqsUpTo(S, n) ==
    IF n = 0 THEN {<<>>}
    ELSE SeqsUpTo(S, n - 1) \cup {Append(q, x) : q \in SeqsUpTo(S, n - 1), x \in S}

ArgLists == SeqsUpTo(ArgTokens, MaxArgs)
StringMaps == {EmptyMap} \cup {[k \in {"k"} |-> t] : t \in {<<"4","2">>, <<"a","b","c">>}}
RequestIDs == 1..MaxRequestID
URIs == {"io.xconn.test"}

Base(name) ==
    {[DefaultCmd EXCEPT !.parsedCommand = name, !.output = o] : o \in OutputFormats}

MsgBase(name) ==
    {[b EXCEPT !.serializer = s] : b \in Base(name), s \in SerializerNames}

AuthInputs ==
    {[c |-> b, env |-> [DefaultEnv EXCEPT !.randFails = f, !.rnd = r]] :
        b \in Base(GenerateChallengeCmd) \cup Base(KeygenCmd),
        f \in BOOLEAN, r \in 1..NumSeeds}
    \cup {[c |-> [b EXCEPT !.challenge = ch, !.privateKey = k], env |-> DefaultEnv] :
        b \in Base(SignChallengeCmd), ch \in ChallengeTokens, k \in KeyTokens}
    \cup {[c |-> [b EXCEPT !.signature = sg, !.publicKey = k], env |-> DefaultEnv] :
        b \in Base(VerifySignatureCmd), sg \in SignatureTokens, k \in KeyTokens}
    \cup {[c |-> [b EXCEPT !.privateKeyFlag = k], env |-> DefaultEnv] :
        b \in Base(GetPubKeyCmd), k \in KeyTokens}

ArgsInputs ==
    {[c |-> [b EXCEPT !.callRequestID = id, !.callURI = u, !.callArgs = a,
                      !.callKwargs = kw, !.callOption = o]] :
        b \in MsgBase(CallCmd), id \in RequestIDs, u \in URIs, a \in ArgLists,
        kw \in StringMaps, o \in StringMaps}
    \cup {[c |-> [b EXCEPT !.resultRequestID = id, !.resultArgs = a,
                      !.resultKwargs = kw, !.resultDetails = o]] :
        b \in MsgBase(ResultCmd), id \in RequestIDs, a \in ArgLists,
        kw \in StringMaps, o \in StringMaps}
    \cup {[c |-> [b EXCEPT !.invRequestID = id, !.invRegistrationID = id2, !.invArgs = a,
                      !.invKwArgs = kw, !.invDetails = o]] :
        b \in MsgBase(InvocationCmd), id \in RequestIDs, id2 \in RequestIDs,
        a \in ArgLists, kw \in StringMaps, o \in {EmptyMap}}
    \cup {[c |-> [b EXCEPT !.yieldRequestID = id, !.yieldArgs = a,
                      !.yieldKwArgs = kw, !.yieldOptions = o]] :
        b \in MsgBase(YieldCmd), id \in RequestIDs, a \in ArgLists,
        kw \in StringMaps, o \in StringMaps}
    \cup {[c |-> [b EXCEPT !.publishRequestID = id, !.publishTopic = u, !.publishArgs = a,
                      !.publishKwArgs = kw, !.publishOptions = o]] :
        b \in MsgBase(PublishCmd), id \in RequestIDs, u \in URIs, a \in ArgLists,
        kw \in StringMaps, o \in StringMaps}

PlainInputs ==
    {[c |-> [b EXCEPT !.regRequestID = id, !.regProcedure = u, !.regOptions = o]] :
        b \in MsgBase(RegisterCmd), id \in RequestIDs, u \in URIs, o \in StringMaps}
    \cup {[c |-> [b EXCEPT !.registeredRequestID = id, !.registrationID = id2]] :
        b \in MsgBase(RegisteredCmd), id \in RequestIDs, id2 \in RequestIDs}
    \cup {[c |-> [b EXCEPT !.unRegRequestID = id, !.unRegRegistrationID = id2]] :
        b \in MsgBase(UnRegisterCmd), id \in RequestIDs, id2 \in RequestIDs}
    \cup {[c |-> [b EXCEPT !.UnRegisteredRequestID = id]] :
        b \in MsgBase(UnRegisteredCmd), id \in RequestIDs}
    \cup {[c |-> [b EXCEPT !.subscribeRequestID = id, !.subscribeTopic = u,
                      !.subscribeOptions = o]] :
        b \in MsgBase(SubscribeCmd), id \in RequestIDs, u \in URIs, o \in StringMaps}
    \cup {[c |-> [b EXCEPT !.subscribedRequestID = id, !.subscriptionID = id2]] :
        b \in MsgBase(SubscribedCmd), id \in RequestIDs, id2 \in RequestIDs}

MessageInputs ==
    {[c |-> i.c, env |-> [DefaultEnv EXCEPT !.serializeFails = f]] :
        i \in ArgsInputs \cup PlainInputs, f \in BOOLEAN}

Inputs == AuthInputs \cup MessageInputs

\* -------------------------------------------------------------------- Run
Call(fn, arg) == [fn |-> fn, arg |-> arg]

\* the ways a case of the switch ends
Return(output, log) == [out |-> output, err |-> nil, panicked |-> FALSE, calls |-> log]
Error(e, log)       == [out |-> <<>>, err |-> e, panicked |-> FALSE, calls |-> log]
Panicked(log)       == [out |-> <<>>, err |-> nil, panicked |-> TRUE, calls |-> log]

\* return wampprotocli.FormatOutput(...) / FormatOutputBytes(...)
Formatted(r, log) == IF r.ok THEN Return(r.v, log) ELSE Error(r.err, log)

GenerateChallengeCase(cc, e) ==
    LET challenge == GenerateCryptoSignChallenge(e)
        log == <<Call("GenerateCryptoSignChallenge", <<>>)>>
    IN  IF ~challenge.ok THEN Error(challenge.err, log)
        ELSE Formatted(FormatOutput(cc.output, challenge.v),
                       Append(log, Call("FormatOutput", challenge.v)))

\* faulty variant: only over-long keys are rejected
BadPrivateKeyLength_OnlyLong(privateKeyBytes) == Len(privateKeyBytes) > PrivateKeySize

BadPrivateKeyLength(privateKeyBytes) ==
    Len(privateKeyBytes) # SeedSize /\ Len(privateKeyBytes) # PrivateKeySize

\* faulty variant: the seed is handed to the signer as it is
ExpandSeed_Skipped(privateKeyBytes) == privateKeyBytes

ExpandSeed(privateKeyBytes) ==
    IF Len(privateKeyBytes) = SeedSize THEN NewKeyFromSeed(privateKeyBytes)
    ELSE privateKeyBytes

SignChallengeCase(cc) ==
    LET decoded == DecodeHexOrBase64(cc.privateKey)
        log0 == <<Call("DecodeHexOrBase64", cc.privateKey)>>
    IN  IF ~decoded.ok THEN Error(<<"invalid private-key: ">> \o decoded.err, log0)
        ELSE IF BadPrivateKeyLength(decoded.v)
             THEN Error(<<"invalid private-key: must be of length 32 or 64">>, log0)
        ELSE LET privateKeyBytes == ExpandSeed(decoded.v)
                 signedChallenge == SignCryptoSignChallenge(cc.challenge, privateKeyBytes)
                 log1 == Append(log0, Call("SignCryptoSignChallenge",
                                 [challenge |-> cc.challenge, privateKey |-> privateKeyBytes]))
             IN  IF signedChallenge.panicked THEN Panicked(log1)
                 ELSE IF ~signedChallenge.ok THEN Error(signedChallenge.err, log1)
                 ELSE Formatted(FormatOutput(cc.output, signedChallenge.v),
                                Append(log1, Call("FormatOutput", signedChallenge.v)))

\* faulty variant: only short keys are rejected
BadPublicKeyLength_OnlyShort(publicKeyBytes) == Len(publicKeyBytes) < PublicKeySize

BadPublicKeyLength(publicKeyBytes) == Len(publicKeyBytes) # PublicKeySize

\* faulty variant: a signature that does not verify is reported as a success
VerifyOutcome_AlwaysOk(isVerified, log) ==
    Return(<<"Signature verified successfully">>, log)

VerifyOutcome(isVerified, log) ==
    IF isVerified THEN Return(<<"Signature verified successfully">>, log)
    ELSE Error(<<"signature verification failed">>, log)

VerifySignatureCase(cc) ==
    LET decoded == DecodeHexOrBase64(cc.publicKey)
        log0 == <<Call("DecodeHexOrBase64", cc.publicKey)>>
    IN  IF ~decoded.ok THEN Error(<<"invalid public-key: ">> \o decoded.err, log0)
        ELSE IF BadPublicKeyLength(decoded.v)
             THEN Error(<<"invalid public-key: must be of length 32">>, log0)
        ELSE LET verified == VerifyCryptoSignSignature(cc.signature, decoded.v)
                 log1 == Append(log0, Call("VerifyCryptoSignSignature",
                                 [signature |-> cc.signature, publicKey |-> decoded.v,
                                  ok |-> verified.ok, isVerified |-> verified.ok /\ verified.v,
                                  err |-> verified.err]))
             IN  IF ~verified.ok THEN Error(verified.err, log1)
                 ELSE VerifyOutcome(verified.v, log1)

GenerateKeyPairCase(cc, e) ==
    LET pair == GenerateCryptoSignKeyPair(e)
        log0 == <<Call("GenerateCryptoSignKeyPair", <<>>)>>
    IN  IF ~pair.ok THEN Error(pair.err, log0)
        ELSE LET formatedPubKey == FormatOutput(cc.output, pair.v.publicKey)
                 log1 == Append(log0, Call("FormatOutput", pair.v.publicKey))
                 formatedPriKey == FormatOutput(cc.output, pair.v.privateKey)
                 log2 == Append(log1, Call("FormatOutput", pair.v.privateKey))
             IN  IF ~formatedPubKey.ok THEN Error(formatedPubKey.err, log1)
                 ELSE IF ~formatedPriKey.ok THEN Error(formatedPriKey.err, log2)
                 ELSE Return(<<"Public Key: ">> \o formatedPubKey.v
                             \o <<"\n", "Private Key: ">> \o formatedPriKey.v, log2)

GetPublicKeyCase(cc) ==
    LET decoded == DecodeHexOrBase64(cc.privateKeyFlag)
        log0 == <<Call("DecodeHexOrBase64", cc.privateKeyFlag)>>
    IN  IF ~decoded.ok THEN Error(<<"invalid private-key: ">> \o decoded.err, log0)
        ELSE LET log1 == Append(log0, Call("NewKeyFromSeed", decoded.v))
             IN  IF NewKeyFromSeedPanics(decoded.v) THEN Panicked(log1)
                 ELSE LET publicKeyBytes == Public(NewKeyFromSeed(decoded.v))
                      IN  Formatted(FormatOutputBytes(cc.output, publicKeyBytes),
                                    Append(log1, Call("FormatOutputBytes", publicKeyBytes)))

\* faulty variant: the serializer's error is wrapped and the (empty) bytes
\* are still encoded
serializeMessageAndOutput_NoAbort(serializer, message, outputFormat, e, log) ==
    LET serializedMessage == Serialize(serializer, message, e)
        log1 == Append(log, Call("Serialize", [serializer |-> serializer, message |-> message]))
        log2 == Append(log1, Call("FormatOutputBytes", serializedMessage.v))
    IN  IF ~serializedMessage.ok
        THEN Error(<<"serialize: ">> \o serializedMessage.err, log2)
        ELSE Formatted(FormatOutputBytes(outputFormat, serializedMessage.v), log2)

serializeMessageAndOutput(serializer, message, outputFormat, e, log) ==
    LET serializedMessage == Serialize(serializer, message, e)
        log1 == Append(log, Call("Serialize", [serializer |-> serializer, message |-> message]))
    IN  IF ~serializedMessage.ok THEN Error(serializedMessage.err, log1)
        ELSE Formatted(FormatOutputBytes(outputFormat, serializedMessage.v),
                       Append(log1, Call("FormatOutputBytes", serializedMessage.v)))

\* the conversions of one case, then the constructor call
Built(fn, message) == <<Call("Convert", <<>>), Call(fn, message)>>

CallCase(cc, e) ==
    LET options == StringMapToTypedMap(cc.callOption)
        converted == UpdateArgsKwArgsIfEmpty(StringsToTypedList(cc.callArgs),
                                             StringMapToTypedMap(cc.callKwargs))
        serializer == SerializerByName(cc.serializer)
        callMessage == NewCall(cc.callRequestID, options.v, cc.callURI,
                               converted[1], converted[2])
    IN  serializeMessageAndOutput(serializer, callMessage, cc.output, e,
                                  Built("NewCall", callMessage))

ResultCase(cc, e) ==
    LET details == StringMapToTypedMap(cc.resultDetails)
        converted == UpdateArgsKwArgsIfEmpty(StringsToTypedList(cc.resultArgs),
                                             StringMapToTypedMap(cc.resultKwargs))
        serializer == SerializerByName(cc.serializer)
        resultMessage == NewResult(cc.resultRequestID, details.v, converted[1], converted[2])
    IN  serializeMessageAndOutput(serializer, resultMessage, cc.output, e,
                                  Built("NewResult", resultMessage))

RegisterCase(cc, e) ==
    LET options == StringMapToTypedMap(cc.regOptions)
        serializer == SerializerByName(cc.serializer)
        regMessage == NewRegister(cc.regRequestID, options.v, cc.regProcedure)
    IN  serializeMessageAndOutput(serializer, regMessage, cc.output, e,
                                  Built("NewRegister", regMessage))

RegisteredCase(cc, e) ==
    LET serializer == SerializerByName(cc.serializer)
        registeredCmd == NewRegistered(cc.registeredRequestID, cc.registrationID)
    IN  serializeMessageAndOutput(serializer, registeredCmd, cc.output, e,
                                  Built("NewRegistered", registeredCmd))

InvocationCase(cc, e) ==
    LET details == StringMapToTypedMap(cc.invDetails)
        converted == UpdateArgsKwArgsIfEmpty(StringsToTypedList(cc.invArgs),
                                             StringMapToTypedMap(cc.invKwArgs))
        serializer == SerializerByName(cc.serializer)
        invocationMessage == NewInvocation(cc.invRequestID, cc.invRegistrationID, details.v,
                                           converted[1], converted[2])
    IN  serializeMessageAndOutput(serializer, invocationMessage, cc.output, e,
                                  Built("NewInvocation", invocationMessage))

YieldCase(cc, e) ==
    LET options == StringMapToTypedMap(cc.yieldOptions)
        converted == UpdateArgsKwArgsIfEmpty(StringsToTypedList(cc.yieldArgs),
                                             StringMapToTypedMap(cc.yieldKwArgs))
        serializer == SerializerByName(cc.serializer)
        yieldMessage == NewYield(cc.yieldRequestID, options.v, converted[1], converted[2])
    IN  serializeMessageAndOutput(serializer, yieldMessage, cc.output, e,
                                  Built("NewYield", yieldMessage))

\* the request ID read here is the one of the registered command
UnRegisterCase(cc, e) ==
    LET serializer == SerializerByName(cc.serializer)
        unRegisterMessage == NewUnRegister(cc.registeredRequestID, cc.unRegRegistrationID)
    IN  serializeMessageAndOutput(serializer, unRegisterMessage, cc.output, e,
                                  Built("NewUnRegister", unRegisterMessage))

UnRegisteredCase(cc, e) ==
    LET serializer == SerializerByName(cc.serializer)
        unRegisteredMessage == NewUnRegistered(cc.UnRegisteredRequestID)
    IN  serializeMessageAndOutput(serializer, unRegisteredMessage, cc.output, e,
                                  Built("NewUnRegistered", unRegisteredMessage))

SubscribeCase(cc, e) ==
    LET subscribeOptions == StringMapToTypedMap(cc.subscribeOptions)
        serializer == SerializerByName(cc.serializer)
        subscribeMessage == NewSubscribe(cc.subscribeRequestID, subscribeOptions.v,
                                         cc.subscribeTopic)
    IN  serializeMessageAndOutput(serializer, subscribeMessage, cc.output, e,
                                  Built("NewSubscribe", subscribeMessage))

SubscribedCase(cc, e) ==
    LET serializer == SerializerByName(cc.serializer)
        subscribedMessage == NewSubscribed(cc.subscribedRequestID, cc.subscriptionID)
    IN  serializeMessageAndOutput(serializer, subscribedMessage, cc.output, e,
                                  Built("NewSubscribed", subscribedMessage))

\* no UpdateArgsKwArgsIfEmpty in this case
PublishCase(cc, e) ==
    LET publishOptions == StringMapToTypedMap(cc.publishOptions)
        publishArgs == StringsToTypedList(cc.publishArgs)
        publishKwargs == StringMapToTypedMap(cc.publishKwArgs)
        serializer == SerializerByName(cc.serializer)
        publishMessage == NewPublish(cc.publishRequestID, publishOptions.v, cc.publishTopic,
                                     publishArgs, publishKwargs)
    IN  serializeMessageAndOutput(serializer, publishMessage, cc.output, e,
                                  Built("NewPublish", publishMessage))

\* ---------------------------------------------------------------- actions
Init ==
    /\ pc = "start"
    /\ c = DefaultCmd
    /\ env = DefaultEnv
    /\ calls = <<>>
    /\ out = <<>>
    /\ err = nil
    /\ stdout = <<>>
    /\ stderr = <<>>
    /\ exitStatus = -1

\* parseCmd succeeds: app.Parse names the selected command and fills its fields
ParseCmd ==
    /\ pc = "start"
    /\ \E input \in Inputs :
        /\ c' = input.c
        /\ env' = input.env
    /\ pc' = "run"
    /\ UNCHANGED <<calls, out, err, stdout, stderr, exitStatus>>

\* parseCmd fails (unknown command, missing argument, value outside an Enum):
\* Run returns "", err
ParseCmdError ==
    /\ pc = "start"
    /\ pc' = "returned"
    /\ out' = <<>>
    /\ err' = <<"kingpin: parse error">>
    /\ UNCHANGED <<c, env, calls, stdout, stderr, exitStatus>>

\* one case of the switch in Run, from its first statement to its return
RunCase(name, result) ==
    /\ pc = "run"
    /\ c.parsedCommand = name
    /\ out' = result.out
    /\ err' = result.err
    /\ calls' = result.calls
    /\ pc' = IF result.panicked THEN "panicked" ELSE "returned"
    /\ UNCHANGED <<c, env, stdout, stderr, exitStatus>>

GenerateChallenge == RunCase(GenerateChallengeCmd, GenerateChallengeCase(c, env))
SignChallenge     == RunCase(SignChallengeCmd, SignChallengeCase(c))
VerifySignature   == RunCase(VerifySignatureCmd, VerifySignatureCase(c))
GenerateKeyPair   == RunCase(KeygenCmd, GenerateKeyPairCase(c, env))
GetPublicKey      == RunCase(GetPubKeyCmd, GetPublicKeyCase(c))
CallMsg           == RunCase(CallCmd, CallCase(c, env))
ResultMsg         == RunCase(ResultCmd, ResultCase(c, env))
RegisterMsg       == RunCase(RegisterCmd, RegisterCase(c, env))
RegisteredMsg     == RunCase(RegisteredCmd, RegisteredCase(c, env))
InvocationMsg     == RunCase(InvocationCmd, InvocationCase(c, env))
YieldMsg          == RunCase(YieldCmd, YieldCase(c, env))
UnRegisterMsg     == RunCase(UnRegisterCmd, UnRegisterCase(c, env))
UnRegisteredMsg   == RunCase(UnRegisteredCmd, UnRegisteredCase(c, env))
SubscribeMsg      == RunCase(SubscribeCmd, SubscribeCase(c, env))
SubscribedMsg     == RunCase(SubscribedCmd, SubscribedCase(c, env))
PublishMsg        == RunCase(PublishCmd, PublishCase(c, env))

\* what main leaves behind for a result of Run: log.Fatalln prints the error
\* and exits 1, fmt.Println prints the output and main returns (exit 0)
\* faulty variant: the error is printed but the process still exits 0
MainOutcome_ExitsZero(output, e) ==
    IF e # nil THEN [stdout |-> <<>>, stderr |-> e \o <<"\n">>, exitStatus |-> 0]
    ELSE [stdout |-> output \o <<"\n">>, stderr |-> <<>>, exitStatus |-> 0]

MainOutcome(output, e) ==
    IF e # nil THEN [stdout |-> <<>>, stderr |-> e \o <<"\n">>, exitStatus |-> 1]
    ELSE [stdout |-> output \o <<"\n">>, stderr |-> <<>>, exitStatus |-> 0]

Main ==
    /\ pc = "returned"
    /\ stdout' = MainOutcome(out, err).stdout
    /\ stderr' = MainOutcome(out, err).stderr
    /\ exitStatus' = MainOutcome(out, err).exitStatus
    /\ pc' = "exited"
    /\ UNCHANGED <<c, env, calls, out, err>>

\* a panic inside Run unwinds through main: the runtime prints the panic to
\* standard error and the process exits with status 2
Crash ==
    /\ pc = "panicked"
    /\ stderr' = <<"panic: ", "\n">>
    /\ exitStatus' = 2
    /\ pc' = "exited"
    /\ UNCHANGED <<c, env, calls, out, err, stdout>>

Next ==
    \/ ParseCmd \/ ParseCmdError
    \/ GenerateChallenge \/ SignChallenge \/ VerifySignature \/ GenerateKeyPair
    \/ GetPublicKey
    \/ CallMsg \/ ResultMsg \/ RegisterMsg \/ RegisteredMsg \/ InvocationMsg
    \/ YieldMsg \/ UnRegisterMsg \/ UnRegisteredMsg \/ SubscribeMsg \/ SubscribedMsg
    \/ PublishMsg
    \/ Main \/ Crash

Spec == Init /\ [][Next]_vars

\* ------------------------------------------------------------- properties
\* Run has ended (by return or by panic); c, env, calls, out, err are final
Ran == pc \in {"returned", "panicked", "exited"}
RunPanicked == pc = "panicked" \/ exitStatus = 2
Parsed(name) == Ran /\ c.parsedCommand = name

ArgsConstructors == {"NewCall", "NewResult", "NewInvocation", "NewYield", "NewPublish"}
Constructors ==
    ArgsConstructors \cup {"NewRegister", "NewRegistered", "NewUnRegister",
                           "NewUnRegistered", "NewSubscribe", "NewSubscribed"}
MessageCmds ==
    {CallCmd, ResultCmd, RegisterCmd, RegisteredCmd, InvocationCmd, YieldCmd,
     UnRegisterCmd, UnRegisteredCmd, SubscribeCmd, SubscribedCmd, PublishCmd}

Logged(fn) == {i \in 1..Len(calls) : calls[i].fn = fn}
LoggedIn(fns) == {i \in 1..Len(calls) : calls[i].fn \in fns}

SameMap(a, b) == DOMAIN a = DOMAIN b /\ \A k \in DOMAIN a : a[k] = b[k]

\* the positional args and the --kwargs of the command on the command line
ArgsOf(cc) ==
    CASE cc.parsedCommand = CallCmd -> cc.callArgs
      [] cc.parsedCommand = ResultCmd -> cc.resultArgs
      [] cc.parsedCommand = InvocationCmd -> cc.invArgs
      [] cc.parsedCommand = YieldCmd -> cc.yieldArgs
      [] cc.parsedCommand = PublishCmd -> cc.publishArgs
KwargsOf(cc) ==
    CASE cc.parsedCommand = CallCmd -> cc.callKwargs
      [] cc.parsedCommand = ResultCmd -> cc.resultKwargs
      [] cc.parsedCommand = InvocationCmd -> cc.invKwArgs
      [] cc.parsedCommand = YieldCmd -> cc.yieldKwArgs
      [] cc.parsedCommand = PublishCmd -> cc.publishKwArgs

\* the request-id positional argument of the command on the command line
RequestIDOf(cc) ==
    CASE cc.parsedCommand = CallCmd -> cc.callRequestID
      [] cc.parsedCommand = ResultCmd -> cc.resultRequestID
      [] cc.parsedCommand = RegisterCmd -> cc.regRequestID
      [] cc.parsedCommand = RegisteredCmd -> cc.registeredRequestID
      [] cc.parsedCommand = InvocationCmd -> cc.invRequestID
      [] cc.parsedCommand = YieldCmd -> cc.yieldRequestID
      [] cc.parsedCommand = UnRegisterCmd -> cc.unRegRequestID
      [] cc.parsedCommand = UnRegisteredCmd -> cc.UnRegisteredRequestID
      [] cc.parsedCommand = SubscribeCmd -> cc.subscribeRequestID
      [] cc.parsedCommand = SubscribedCmd -> cc.subscribedRequestID
      [] cc.parsedCommand = PublishCmd -> cc.publishRequestID

\* C1: for call, result, invocation, yield and publish the constructor
\* receives absent args and kwargs when the converted list and map are both
\* empty, and the converted list and map themselves otherwise.
C1_EmptyDefaulting ==
    \A i \in LoggedIn(ArgsConstructors) :
        LET m == calls[i].arg
            a == StringsToTypedList(ArgsOf(c))
            k == StringMapToTypedMap(KwargsOf(c))
        IN  IF IsEmpty(a) /\ IsEmpty(k)
            THEN ~m.args.present /\ ~m.kwargs.present
            ELSE /\ m.args.present /\ m.args.v = a.v
                 /\ m.kwargs.present /\ SameMap(m.kwargs.v, k.v)

\* C2: the request ID every message constructor receives is the request-id
\* argument of the command that was run.
C2_RequestIDIsOwnArgument ==
    \A i \in LoggedIn(Constructors) : calls[i].arg.requestID = RequestIDOf(c)

\* C3: Run never panics, and it returns either a non-empty output with no
\* error or an empty output with an error.
C3_RunReturnsOneOfTwoShapes ==
    /\ ~RunPanicked
    /\ pc \in {"returned", "exited"} =>
          \/ out # <<>> /\ err = nil
          \/ out = <<>> /\ err # nil

LengthError == <<"invalid private-key: must be of length 32 or 64">>
PublicLengthError == <<"invalid public-key: must be of length 32">>

\* C4: sign-challenge with a decoded key that is neither 32 nor 64 bytes long
\* returns the length error without calling the signer; the signer is only
\* ever called with a 64-byte key, a 32-byte key being expanded first.
C4_SignerGetsExpandedKey ==
    /\ \A i \in Logged("SignCryptoSignChallenge") :
           Len(calls[i].arg.privateKey) = PrivateKeySize
    /\ Parsed(SignChallengeCmd) /\ DecodeHexOrBase64(c.privateKey).ok =>
          LET key == DecodeHexOrBase64(c.privateKey).v
          IN  /\ Len(key) \notin {SeedSize, PrivateKeySize} =>
                    /\ out = <<>> /\ err = LengthError /\ ~RunPanicked
                    /\ Logged("SignCryptoSignChallenge") = {}
              /\ Len(key) = SeedSize =>
                    \A i \in Logged("SignCryptoSignChallenge") :
                        calls[i].arg.privateKey = NewKeyFromSeed(key)

C4_Witness ==
    /\ Parsed(SignChallengeCmd)
    /\ DecodeHexOrBase64(c.privateKey).ok
    /\ Len(DecodeHexOrBase64(c.privateKey).v) = 16
    /\ err = LengthError

\* the 32-byte seed of a sign-challenge run, and the same run given the
\* 64-byte expansion of that seed instead
SignedWithSeed ==
    /\ Parsed(SignChallengeCmd)
    /\ DecodeHexOrBase64(c.privateKey).ok
    /\ Len(DecodeHexOrBase64(c.privateKey).v) = SeedSize
WithExpandedKey ==
    SignChallengeCase([c EXCEPT !.privateKey =
                          HexEncode(NewKeyFromSeed(DecodeHexOrBase64(c.privateKey).v))])

\* C5 as stated: for every challenge and every 32-byte seed, sign-challenge
\* with the seed and with its 64-byte expansion both succeed with the same
\* output.
C5_SeedAndExpansionBothSucceed ==
    SignedWithSeed =>
        /\ ~RunPanicked /\ err = nil /\ out # <<>>
        /\ WithExpandedKey.err = nil /\ WithExpandedKey.out = out

\* C5 amended: sign-challenge with a 32-byte seed and with its 64-byte
\* expansion end the same way, with the same output or the same error, and
\* both succeed whenever the signer accepts the challenge.
C5_SeedAndExpansionAgree ==
    SignedWithSeed =>
        /\ ~RunPanicked /\ ~WithExpandedKey.panicked
        /\ WithExpandedKey.err = err /\ WithExpandedKey.out = out
        /\ SignCryptoSignChallenge(c.challenge,
                NewKeyFromSeed(DecodeHexOrBase64(c.privateKey).v)).ok
              => err = nil /\ out # <<>>

C5_Witness ==
    /\ SignedWithSeed
    /\ c.output = Base64Format
    /\ err = nil /\ out # <<>>
    /\ WithExpandedKey.out = out

\* C6: verify-signature with a decoded public key that is not 32 bytes long
\* returns the length error without calling the verifier; the verifier is
\* only ever called with a 32-byte public key.
C6_VerifierGets32ByteKey ==
    /\ \A i \in Logged("VerifyCryptoSignSignature") :
           Len(calls[i].arg.publicKey) = PublicKeySize
    /\ ( /\ Parsed(VerifySignatureCmd)
         /\ DecodeHexOrBase64(c.publicKey).ok
         /\ Len(DecodeHexOrBase64(c.publicKey).v) # PublicKeySize )
       => /\ out = <<>> /\ err = PublicLengthError
          /\ Logged("VerifyCryptoSignSignature") = {}

C6_Witness ==
    /\ Parsed(VerifySignatureCmd)
    /\ DecodeHexOrBase64(c.publicKey).ok
    /\ Len(DecodeHexOrBase64(c.publicKey).v) = PrivateKeySize
    /\ err = PublicLengthError

VerifiedMessage == <<"Signature verified successfully">>
NotVerifiedError == <<"signature verification failed">>

VerifiedWith32ByteKey ==
    /\ Parsed(VerifySignatureCmd)
    /\ DecodeHexOrBase64(c.publicKey).ok
    /\ Len(DecodeHexOrBase64(c.publicKey).v) = PublicKeySize

\* the signature argument is a valid signature under the public key
ValidSignature ==
    LET r == VerifyCryptoSignSignature(c.signature, DecodeHexOrBase64(c.publicKey).v)
    IN  r.ok /\ r.v

\* C7 as stated: with a 32-byte public key every signature argument that is
\* not a valid signature under it ends in "signature verification failed" and
\* in no other error, and the success message is returned only when the
\* verifier reports the signature as verified.
C7_BadSignatureAlwaysVerificationFailed ==
    VerifiedWith32ByteKey =>
        /\ ~ValidSignature => out = <<>> /\ err = NotVerifiedError
        /\ out = VerifiedMessage =>
              \E i \in Logged("VerifyCryptoSignSignature") : calls[i].arg.isVerified

\* C7 amended: with a 32-byte public key the verifier is called once; when it
\* reports the signature as not verified Run returns "signature verification
\* failed", when it returns an error Run returns that error unchanged, and the
\* success message is returned exactly when it reports the signature verified.
C7_VerifierOutcomeDecides ==
    VerifiedWith32ByteKey =>
        /\ Cardinality(Logged("VerifyCryptoSignSignature")) = 1
        /\ \A i \in Logged("VerifyCryptoSignSignature") :
              LET r == calls[i].arg
              IN  /\ r.ok /\ ~r.isVerified => out = <<>> /\ err = NotVerifiedError
                  /\ ~r.ok => out = <<>> /\ err = r.err /\ err # NotVerifiedError
                  /\ r.isVerified <=> (out = VerifiedMessage /\ err = nil)

C7_Witness ==
    /\ VerifiedWith32ByteKey
    /\ IsHex(c.signature) /\ Len(c.signature) = 192
    /\ ~ValidSignature
    /\ err = NotVerifiedError

\* C8: get-pubkey validates only that the key decodes: whenever it decodes,
\* Run returns the encoded public key with no error, and the only error is
\* the decode failure "invalid private-key: ...".
C8_GetPubKeyAnyDecodableKey ==
    Parsed(GetPubKeyCmd) =>
        LET decoded == DecodeHexOrBase64(c.privateKeyFlag)
        IN  IF decoded.ok
            THEN ~RunPanicked /\ err = nil /\ out # <<>>
            ELSE out = <<>> /\ err = <<"invalid private-key: ">> \o decoded.err

Lines(text) == Cardinality({i \in 1..Len(text) : text[i] = "\n"})
Succeeded == ~RunPanicked /\ err = nil

\* C9 as stated: a successful command writes exactly one line to standard
\* output and exits 0; on any error the error is printed, nothing is written
\* to standard output and the exit status is not 0.
C9_OneResultLine ==
    pc = "exited" =>
        IF Succeeded
        THEN Lines(stdout) = 1 /\ exitStatus = 0
        ELSE stdout = <<>> /\ stderr # <<>> /\ exitStatus # 0

\* C9 amended: a successful command writes its output and a newline to
\* standard output, which is one line, but two for keygen, and exits 0; in
\* every other case the error is printed to standard error, nothing is written
\* to standard output and the exit status is not 0.
C9_ResultLinesAndStatus ==
    pc = "exited" =>
        IF Succeeded
        THEN /\ stdout = out \o <<"\n">>
             /\ Lines(stdout) = IF c.parsedCommand = KeygenCmd THEN 2 ELSE 1
             /\ exitStatus = 0
        ELSE /\ stdout = <<>> /\ stderr # <<>> /\ exitStatus # 0
             /\ ~RunPanicked => stderr = err \o <<"\n">>

C9_Witness ==
    /\ pc = "exited"
    /\ c.parsedCommand = KeygenCmd
    /\ Succeeded
    /\ Lines(stdout) = 2

\* the names of the calls Run made, in order
CallNames == [i \in 1..Len(calls) |-> calls[i].fn]

\* C10: a message command converts, constructs, serializes and encodes in
\* that order, and an error of a delegate (serializer, challenge generator,
\* signer, verifier, key pair generator) ends the command there: Run returns
\* an empty output and that very error, and nothing is encoded.
C10_DelegateErrorAborts ==
    /\ Ran /\ c.parsedCommand \in MessageCmds =>
          /\ Len(calls) >= 3
          /\ calls[1].fn = "Convert" /\ calls[2].fn \in Constructors
          /\ calls[3].fn = "Serialize" /\ calls[3].arg.message = calls[2].arg
          /\ IF env.serializeFails
             THEN /\ Len(calls) = 3
                  /\ out = <<>>
                  /\ err = Serialize(calls[3].arg.serializer, calls[3].arg.message, env).err
             ELSE /\ Len(calls) = 4 /\ calls[4].fn = "FormatOutputBytes"
                  /\ calls[4].arg =
                        Serialize(calls[3].arg.serializer, calls[3].arg.message, env).v
    /\ Parsed(GenerateChallengeCmd) /\ env.randFails =>
          /\ out = <<>> /\ err = GenerateCryptoSignChallenge(env).err
          /\ CallNames = <<"GenerateCryptoSignChallenge">>
    /\ Parsed(KeygenCmd) /\ env.randFails =>
          /\ out = <<>> /\ err = GenerateCryptoSignKeyPair(env).err
          /\ CallNames = <<"GenerateCryptoSignKeyPair">>
    /\ \A i \in Logged("SignCryptoSignChallenge") :
          LET r == SignCryptoSignChallenge(calls[i].arg.challenge, calls[i].arg.privateKey)
          IN  ~r.ok /\ ~r.panicked =>
                 out = <<>> /\ err = r.err /\ Logged("FormatOutput") = {}
    /\ \A i \in Logged("VerifyCryptoSignSignature") :
          ~calls[i].arg.ok => out = <<>> /\ err = calls[i].arg.err

C10_Witness ==
    /\ Parsed(CallCmd)
    /\ env.serializeFails
    /\ out = <<>>
    /\ err = <<"serializer: cannot encode message">>
    /\ CallNames = <<"Convert", "NewCall", "Serialize">>

====
